---- MODULE Spec2Model ----
(***************************************************************************)
(* Model of the cam-recorder supervision engine:                           *)
(*   internal/recorder/recorder.go  Recorder, RecorderManager,             *)
(*                                  MJPEGStreamer, MJPEGManager            *)
(*   internal/storage/storage.go    retention sweep, statistics, listings  *)
(*   cmd/main.go                    start-up and shutdown wiring           *)
(*   internal/web/server.go         handleCameraStart / handleCameraStop,  *)
(*                                  handleLiveStream                       *)
(*                                                                         *)
(* Spec         : the recording registry, its Recorders, their supervision *)
(*                goroutines and ffmpeg children.                          *)
(* FairSpec     : Spec with the fairness the Go scheduler and the child    *)
(*                processes give.                                          *)
(* RegistrySpec : Spec with RemoveCamera.                                  *)
(* DemuxSpec    : readFrames applied to chunked byte streams.              *)
(* StallSpec    : readFrames on streams of arbitrary bytes.                *)
(* SlotSpec     : MJPEGManager's frame slot, cond and live-stream requests.*)
(* ViewSpec     : SlotSpec with the clients of the requests; FairViewSpec  *)
(*                adds the scheduler's fairness.                           *)
(* StreamSpec   : MJPEGManager.Start / Stop and the life of a streamer;    *)
(*                FairStreamSpec adds the scheduler's fairness.            *)
(* StoreSpec    : the retention sweep and GetStats.                        *)
(* NameSpec     : the file names recordSegment builds.                     *)
(* LockSpec     : the mutexes of the managers and of a Recorder.           *)
(* ListSpec     : ListFiles and ListAllSegments.                           *)
(* DirSpec      : the output directories of the recorders of a manager.    *)
(* PathSpec     : DeleteFile and GetFilePath.                              *)
(***************************************************************************)
EXTENDS Integers, Sequences, FiniteSets, TLC

\* ------------------------------------------------------------------------
\* Bounds
\* ------------------------------------------------------------------------

\* Camera names of the configuration file.
Cams == {"Cam1", "Cam2"}

\* runRecorder goroutines spawned in a run, over all cameras (Start calls
\* that succeed).  A Start that would spawn one more is not taken.
MaxLoops == 2

Loops == 1..MaxLoops

\* Longest chunk of arbitrary bytes one Read returns.
MaxChunkLen == 2

\* Most frames in a chunk made of complete frames.
MaxFrames == 2

\* Longest accumulator readFrames is left with between two Reads; a Read that
\* would leave more is not taken.
MaxAccLen == 4

\* Stand-in for the accumulator cap of 512*1024 bytes, scaled to the model.
AccCap == 2

\* Registrations (MJPEGManager.Start that creates a streamer) of the camera's
\* name in a run.
MaxGens == 2

Gens == 1..MaxGens

\* Frames published in a run.
MaxPubs == 2

\* Live-stream requests (handleLiveStream) for the camera.
Viewers == {"v1", "v2"}

\* Days the clock of the storage model runs through.
MaxDay == 2

\* RecordingConfig.RetentionDays of the configuration.
RetentionDays == 1

\* Ticks of the clock in one second, the last tick of a run, and the
\* recordSegment calls of one camera in a run.
TicksPerSecond == 2
MaxTicks == 5
MaxSegments == 3

\* Most files in a listing.
MaxFiles == 3

\* Longest camera name, in characters, and most cameras of a manager.
MaxNameLen == 2
MaxCameras == 3

\* Most elements of a file name given by a caller.
MaxDepth == 2

\* Entries under the output root: the camera directories CamA and CamB hold
\* segment files, a file of another extension and a sub-directory; one file
\* lies in the root itself.  CamB starts out, and may stay, empty.
Paths == {"CamA/a.mp4", "CamA/b.tmp", "CamA/sub", "CamB/c.mp4", "stray.mp4"}
CameraDirs == {"CamA", "CamB"}

\* Byte values: the two marker bytes' halves and one other byte.
Bytes == {0, 216, 217, 255}

\* Sample frame bodies (the bytes between the start and the end marker).
Bodies == {<<>>, <<0>>, <<255>>, <<216, 217>>}

\* ------------------------------------------------------------------------
\* State
\* ------------------------------------------------------------------------
VARIABLES
    phase,       \* position of main: "setup", "serving", "cancelled", "stopped"
    registered,  \* RecorderManager.recorders: name is a key of the map
    removeDone,  \* RemoveCamera has returned for the name
    running,     \* Recorder.running
    stopClosed,  \* Recorder.stopCh has been closed
    lastError,   \* Recorder.lastError
    startTime,   \* Recorder.startTime: 0 is the zero time, n the time of the
                 \* n-th successful Start
    cmd,         \* Recorder.cmd: 0 is nil, else the goroutine that built it
    cmdProc,     \* Recorder.cmd.Process != nil
    nloops,      \* runRecorder goroutines spawned so far by the Recorder
    pc,          \* position of each runRecorder goroutine
    lctx,        \* context each goroutine was given: "none", "top" (the
                 \* top-level context of main), "req" (that of a request)
    reqDone,     \* the request context of the goroutine has been cancelled
    child,       \* ffmpeg child of each goroutine: "none", "active", "signalled"
    invoked,     \* the goroutine has called cmd.Run at least once
    crashed,     \* an unrecovered panic has ended the process
    \* ---- MJPEGStreamer.readFrames (DemuxSpec) ----
    rpc,         \* readFrames: "read" at the select / stdout.Read, "pass" when
                 \* the inner loop has broken out, "returned"
    accumulator, \* readFrames' accumulator, after the inner loop
    emitted,     \* frames handed to the callback in this pass, in order
    preAcc,      \* accumulator as this pass found it, before the append
    chunk,       \* buffer[:n] of this pass
    sent,        \* the frames the chunk of this pass was made of; <<>> when it
                 \* was not a run of whole frames
    \* ---- MJPEGManager and its consumers (SlotSpec) ----
    streaming,   \* name is a key of MJPEGManager.streamers / frames / conds
    condGen,     \* registrations of the name so far; the latest one's
                 \* streamer and cond are those of the maps
    frames,      \* MJPEGManager.frames[name]: kind "absent", "nil", "zeroed"
                 \* (made, not yet copied into) or "frame", and for a frame
                 \* k: it is the k-th frame published
    muHeld,      \* MJPEGManager.mu is write-locked by the callback of this
                 \* streamer; 0 when it is free
    condL,       \* holder of the L of each cond: "free", "callback", or the
                 \* request that holds it
    published,   \* frames published so far
    ppc,         \* position of each streamer's frame callback
    pcond,       \* the cond the callback found in the map
    sstopped,    \* MJPEGStreamer.Stop has been called on the streamer
    cpc,         \* position of each handleLiveStream request
    ccond,       \* the cond GetCond gave the request
    cframe,      \* what GetFrame last returned to the request
    ctrig,       \* the publication whose Broadcast last woke the request
    \* ---- storage.Manager and the recordings tree (StoreSpec) ----
    now,         \* the clock, in days
    rootExists,  \* the output root exists
    present,     \* the entry exists
    mtime,       \* its modification time (0 while it does not exist)
    sweeping,    \* cleanup is between its Lock and its Unlock
    counting,    \* GetStats is between its Lock and its Unlock
    todo,        \* camera directories the sweep in progress has yet to visit
    lastCleanup, \* Manager.lastCleanup (-1 is the zero time)
    deletedCount,\* deletedCount of that sweep
    deletedSize, \* deletedSize of that sweep
    cleanupRet,  \* what the last cleanup returned: "none", "nil", "err"
    \* ---- Recorder.recordSegment's file names (NameSpec) ----
    clock,       \* time.Now(), in ticks
    segments,    \* per camera, the recordSegment calls so far, in order: the
                 \* tick of the call and the file name it built
    \* ---- the mutexes of the two managers and of a Recorder (LockSpec) ----
    opc,         \* per camera and operation, how far the call in progress has
                 \* got through its lock acquisitions ("idle": no call)
    \* ---- the clients of the live-stream requests (ViewSpec) ----
    clientGone,  \* the client of the request has disconnected: the context
                 \* of the request is done
    \* ---- MJPEGManager.streamers and the MJPEGStreamers of one name
    \*      (StreamSpec) ----
    sreg,        \* the streamer m.streamers[name] holds: 0 when the name is
                 \* not a key, else the number of the registration
    sgen,        \* registrations of the name so far
    spc,         \* per streamer, the goroutine `go streamer.Start(...)` and
                 \* the readFrames it starts: "none", "spawned" (not yet
                 \* run), "failed" (Start returned an error), "reading"
                 \* (readFrames is running), "ended" (readFrames returned)
    srunning,    \* MJPEGStreamer.running
    sstopCh,     \* MJPEGStreamer.stopCh has been closed
    schild,      \* the ffmpeg child of the streamer: "none", "active"
    sctxDone,    \* the context given to MJPEGManager.Start is done
    \* ---- ListFiles and ListAllSegments (ListSpec) ----
    listIn,      \* the matching files in the order the directory walk meets
                 \* them
    listOp,      \* the call made on them: "none", "ListFiles",
                 \* "ListAllSegments"
    listLimit,   \* the limit given to ListFiles
    listOut,     \* what the call returned
    dirRecorders, \* recorders of a manager with spelled names: name,
                 \* outputDir, running
    disk,        \* the files that exist, by cleaned path from the working directory
    pathOp,      \* the last call: "none", "DeleteFile", "GetFilePath"
    pathRet      \* what it returned: the path and the error

recVars == <<phase, registered, removeDone, running, stopClosed, lastError,
             startTime,
             cmd, cmdProc, nloops, pc, lctx, reqDone, child, invoked,
             crashed>>
demuxVars == <<rpc, accumulator, emitted, preAcc, chunk, sent>>
slotVars == <<streaming, condGen, frames, muHeld, condL, published, ppc,
              pcond, sstopped, cpc, ccond, cframe, ctrig>>
storeVars == <<now, rootExists, present, mtime, sweeping, counting, todo,
              lastCleanup,
               deletedCount, deletedSize, cleanupRet>>
nameVars == <<clock, segments>>
lockVars == <<opc>>
viewVars == <<clientGone>>
streamVars == <<sreg, sgen, spc, srunning, sstopCh, schild, sctxDone>>
listVars == <<listIn, listOp, listLimit, listOut>>
dirVars == <<dirRecorders>>
pathVars == <<disk, pathOp, pathRet>>
vars == <<recVars, demuxVars, slotVars, storeVars, nameVars, lockVars, viewVars, streamVars, listVars, dirVars, pathVars>>

\* What the steps of one component leave alone.
notRecVars == <<demuxVars, slotVars, storeVars, nameVars, lockVars, viewVars, streamVars, listVars, dirVars, pathVars>>
notDemuxVars == <<recVars, slotVars, storeVars, nameVars, lockVars, viewVars, streamVars, listVars, dirVars, pathVars>>
notSlotVars == <<recVars, demuxVars, storeVars, nameVars, lockVars, viewVars, streamVars, listVars, dirVars, pathVars>>
notStoreVars == <<recVars, demuxVars, slotVars, nameVars, lockVars, viewVars, streamVars, listVars, dirVars, pathVars>>
notNameVars == <<recVars, demuxVars, slotVars, storeVars, lockVars, viewVars, streamVars, listVars, dirVars, pathVars>>
notLockVars == <<recVars, demuxVars, slotVars, storeVars, nameVars, viewVars, streamVars, listVars, dirVars, pathVars>>
notViewVars == <<recVars, demuxVars, slotVars, storeVars, nameVars, lockVars, streamVars, listVars, dirVars, pathVars>>
notStreamVars == <<recVars, demuxVars, slotVars, storeVars, nameVars, lockVars, viewVars, listVars, dirVars, pathVars>>
notListVars == <<recVars, demuxVars, slotVars, storeVars, nameVars, lockVars, viewVars, streamVars, dirVars, pathVars>>
notDirVars == <<recVars, demuxVars, slotVars, storeVars, nameVars, lockVars, viewVars, streamVars, listVars, pathVars>>
notPathVars == <<recVars, demuxVars, slotVars, storeVars, nameVars, lockVars, viewVars, streamVars, listVars, dirVars>>

\* The fields of one Recorder and its goroutines.
recorderFields == <<running, stopClosed, lastError, startTime, cmd, cmdProc,
                    nloops, pc, lctx, reqDone, child, invoked>>

\* ------------------------------------------------------------------------
\* Initial state: NewRecorderManager, no camera added yet
\* ------------------------------------------------------------------------
RecInit ==
    /\ phase = "setup"
    /\ registered = [c \in Cams |-> FALSE]
    /\ removeDone = [c \in Cams |-> FALSE]
    /\ running = [c \in Cams |-> FALSE]
    /\ stopClosed = [c \in Cams |-> FALSE]
    /\ lastError = [c \in Cams |-> "nil"]
    /\ startTime = [c \in Cams |-> 0]
    /\ cmd = [c \in Cams |-> 0]
    /\ cmdProc = [c \in Cams |-> FALSE]
    /\ nloops = [c \in Cams |-> 0]
    /\ pc = [c \in Cams |-> [l \in Loops |-> "idle"]]
    /\ lctx = [c \in Cams |-> [l \in Loops |-> "none"]]
    /\ reqDone = [c \in Cams |-> [l \in Loops |-> FALSE]]
    /\ child = [c \in Cams |-> [l \in Loops |-> "none"]]
    /\ invoked = [c \in Cams |-> [l \in Loops |-> FALSE]]
    /\ crashed = FALSE

\* readFrames has been started: `accumulator := make([]byte, 0, 1024*1024)`.
DemuxInit ==
    /\ rpc = "read"
    /\ accumulator = <<>>
    /\ emitted = <<>>
    /\ preAcc = <<>>
    /\ chunk = <<>>
    /\ sent = <<>>

\* Values of a slot of MJPEGManager.frames, and of GetFrame's result.
Slot(kind) == [kind |-> kind, k |-> 0]
Frame(k) == [kind |-> "frame", k |-> k]

\* NewMJPEGManager: empty maps; no live-stream request yet.
SlotInit ==
    /\ streaming = FALSE
    /\ condGen = 0
    /\ frames = Slot("absent")
    /\ muHeld = 0
    /\ condL = [g \in Gens |-> "free"]
    /\ published = 0
    /\ ppc = [g \in Gens |-> "none"]
    /\ pcond = [g \in Gens |-> 0]
    /\ sstopped = [g \in Gens |-> FALSE]
    /\ cpc = [v \in Viewers |-> "out"]
    /\ ccond = [v \in Viewers |-> 0]
    /\ cframe = [v \in Viewers |-> Slot("absent")]
    /\ ctrig = [v \in Viewers |-> 0]

\* storage.NewManager and Manager.Start: the output root has been created,
\* nothing recorded yet.
StoreInit ==
    /\ now = 0
    /\ rootExists = TRUE
    /\ present = [p \in Paths |-> FALSE]
    /\ mtime = [p \in Paths |-> 0]
    /\ sweeping = FALSE
    /\ counting = FALSE
    /\ todo = {}
    /\ lastCleanup = -1
    /\ deletedCount = 0
    /\ deletedSize = 0
    /\ cleanupRet = "none"

\* No segment has been recorded yet.
NameInit ==
    /\ clock = 0
    /\ segments = [c \in Cams |-> <<>>]

\* The operations whose locking is followed.
Ops == {"StartCamera", "StopCamera", "Status", "Publish", "ReadFrame", "MjpegStop"}

\* No call is in progress.
LockInit == opc = [c \in Cams |-> [o \in Ops |-> "idle"]]

\* Every client is connected.
ViewInit == clientGone = [v \in Viewers |-> FALSE]

\* NewMJPEGManager: no streamer.
StreamInit ==
    /\ sreg = 0
    /\ sgen = 0
    /\ spc = [g \in Gens |-> "none"]
    /\ srunning = [g \in Gens |-> FALSE]
    /\ sstopCh = [g \in Gens |-> FALSE]
    /\ schild = [g \in Gens |-> "none"]
    /\ sctxDone = [g \in Gens |-> FALSE]

\* The listings a call may find: up to MaxFiles files, each with a
\* modification time, met in any order.
FileTimes == {0, 1, 2}
FileLists ==
    UNION {{s \in [1..k -> [name : 1..MaxFiles, t : FileTimes]] :
                \A i, j \in 1..k : i # j => s[i].name # s[j].name} :
           k \in 0..MaxFiles}

\* No listing has been asked for.
ListInit ==
    /\ listIn = <<>>
    /\ listOp = "none"
    /\ listLimit = 0
    /\ listOut = <<>>

\* A directory tree has been walked; no call made yet.
ListInputs ==
    /\ listIn \in FileLists
    /\ listOp = "none"
    /\ listLimit = 0
    /\ listOut = <<>>

\* NewRecorderManager: an empty map.
DirInit == dirRecorders = {}

\* The files of the machine this model follows, spelled from the working
\* directory, where the root is "r": three recordings under the root, two
\* files in the sibling directory "r2", and a file beside the root.
Files ==
    {<<"r", "/", "a", "/", "x">>, <<"r", "/", "a", "/", "a">>,
     <<"r", "/", "x">>,
     <<"r", "2", "/", "x">>, <<"r", "2", "/", "a">>, <<"x">>}

\* Every file of the machine exists; no call made yet.
PathInit ==
    /\ disk = Files
    /\ pathOp = "none"
    /\ pathRet = [path |-> <<>>, err |-> "nil"]

Init ==
    /\ RecInit /\ DemuxInit /\ SlotInit /\ StoreInit /\ NameInit /\ LockInit
    /\ ViewInit /\ StreamInit /\ ListInit /\ DirInit /\ PathInit

\* ------------------------------------------------------------------------
\* Helpers
\* ------------------------------------------------------------------------

\* The hosting process has not died of an unrecovered panic.
Alive == ~crashed

\* The top-level context of main has been cancelled.
TopCancelled == phase \in {"cancelled", "stopped"}

\* ctx.Done() is closed for the context goroutine l of camera c was given.
CtxDone(c, l) ==
    \/ lctx[c][l] = "top" /\ TopCancelled
    \/ lctx[c][l] = "req" /\ reqDone[c][l]

\* An ffmpeg child of the goroutine is a live process.
ChildAlive(c, l) == child[c][l] \in {"active", "signalled"}

\* runRecorder goroutines spawned so far by the recorders of S.
RECURSIVE Spawned(_)
Spawned(S) ==
    IF S = {} THEN 0
    ELSE LET c == CHOOSE x \in S : TRUE IN nloops[c] + Spawned(S \ {c})

\* Live ffmpeg children writing into the camera's output directory.
ActiveChildren(c) == {l \in Loops : ChildAlive(c, l)}

\* ------------------------------------------------------------------------
\* Recorder.Start
\* ------------------------------------------------------------------------

StartRejectsNever(c) == FALSE

\* `if r.running { return error }`
StartRejects(c) == running[c]

\* `r.startTime = time.Now()`: the time of this Start.
StartStamp(c) == nloops[c] + 1

\* The error Recorder.Start returns; mkdirOk tells whether os.MkdirAll
\* succeeds.
StartError(c, mkdirOk) ==
    IF StartRejects(c) THEN "recorder already running"
    ELSE IF ~mkdirOk THEN "failed to create output directory"
    ELSE "nil"

\* Recorder.Start(ctx) with a context of kind k: on success a runRecorder
\* goroutine is spawned, running is set and the start time taken.
RecorderStart(c, k, mkdirOk) ==
    IF StartError(c, mkdirOk) # "nil"
    THEN UNCHANGED recorderFields
    ELSE /\ Spawned(Cams) < MaxLoops
         /\ LET l == nloops[c] + 1 IN
             /\ nloops' = [nloops EXCEPT ![c] = l]
             /\ pc' = [pc EXCEPT ![c][l] = "select"]
             /\ lctx' = [lctx EXCEPT ![c][l] = k]
         /\ running' = [running EXCEPT ![c] = TRUE]
         /\ startTime' = [startTime EXCEPT ![c] = StartStamp(c)]
         /\ UNCHANGED <<stopClosed, lastError, cmd, cmdProc, reqDone, child,
                        invoked>>

\* ------------------------------------------------------------------------
\* Recorder.Stop
\* ------------------------------------------------------------------------

StopReturnsEarlyNever(c) == FALSE

\* `if !r.running { return }`
StopReturnsEarly(c) == ~running[c]

\* close(r.stopCh) on a channel that is already closed panics.
StopPanics(c) == ~StopReturnsEarly(c) /\ stopClosed[c]

\* Effect of Recorder.Stop on every recorder of S, none of which panics:
\* close(r.stopCh) and running = false, unless Stop returns early.
StopEffect(S) ==
    /\ stopClosed' = [c \in Cams |->
          IF c \in S /\ ~StopReturnsEarly(c) THEN TRUE ELSE stopClosed[c]]
    /\ running' = [c \in Cams |->
          IF c \in S /\ ~StopReturnsEarly(c) THEN FALSE ELSE running[c]]
    /\ UNCHANGED <<lastError, startTime, cmd, cmdProc, nloops, pc, lctx,
                   reqDone, child, invoked>>

\* ------------------------------------------------------------------------
\* main: start-up and shutdown
\* ------------------------------------------------------------------------

NameExistsNever(c) == FALSE

\* `if _, exists := rm.recorders[name]; exists`
NameExists(c) == registered[c]

\* The error RecorderManager.AddCamera returns.
AddCameraError(c, enabled, mkdirOk) ==
    IF NameExists(c) THEN "already exists"
    ELSE IF enabled /\ StartError(c, mkdirOk) # "nil" THEN "failed to start recorder"
    ELSE "nil"

\* RecorderManager.AddCamera(ctx, name, url, enabled), called by main with the
\* top-level context for each camera of the configuration.  A name that was
\* removed is not added again: New would make a second Recorder of that
\* name, and the fields below are those of one Recorder per name.
AddCamera(c, enabled, mkdirOk) ==
    /\ phase = "setup"
    /\ IF NameExists(c)
       THEN UNCHANGED <<registered, recorderFields>>
       ELSE /\ ~removeDone[c]
            /\ registered' = [registered EXCEPT ![c] = TRUE]
            /\ IF enabled
               THEN RecorderStart(c, "top", mkdirOk)
               ELSE UNCHANGED recorderFields
    /\ UNCHANGED <<phase, removeDone, crashed, notRecVars>>

\* RecorderManager.RemoveCamera(name): `rec.Stop()`, then
\* `delete(rm.recorders, name)`; nothing for a name that is not registered.
\* A panic of Stop leaves through the deferred unlock before the delete, and
\* whether it ends the process is up to the caller (recovered).
RemoveCamera(c, recovered) ==
    /\ Alive
    /\ IF ~registered[c]
       THEN UNCHANGED <<registered, removeDone, recorderFields, crashed>>
       ELSE IF StopPanics(c)
       THEN /\ crashed' = ~recovered
            /\ UNCHANGED <<registered, removeDone, recorderFields>>
       ELSE /\ StopEffect({c})
            /\ registered' = [registered EXCEPT ![c] = FALSE]
            /\ removeDone' = [removeDone EXCEPT ![c] = TRUE]
            /\ UNCHANGED crashed
    /\ UNCHANGED <<phase, notRecVars>>

\* main reaches server.Start: the web layer begins to serve requests.
ServerStart ==
    /\ phase = "setup"
    /\ phase' = "serving"
    /\ UNCHANGED <<registered, removeDone, recorderFields, crashed,
                   notRecVars>>

\* The shutdown goroutine receives the signal and calls cancel().
Cancel ==
    /\ phase = "serving"
    /\ Alive
    /\ phase' = "cancelled"
    /\ UNCHANGED <<registered, removeDone, recorderFields, crashed,
                   notRecVars>>

\* RecorderManager.StopAll, called by the shutdown goroutine after cancel().
\* The map is walked in an unspecified order; a panic of one Stop is not
\* recovered and ends the process with the recorders visited so far stopped.
StopAll ==
    /\ phase = "cancelled"
    /\ Alive
    /\ phase' = "stopped"
    /\ LET R == {c \in Cams : registered[c]}
           P == {c \in R : StopPanics(c)}
       IN IF P = {}
          THEN /\ StopEffect(R)
               /\ crashed' = crashed
          ELSE /\ \E S \in SUBSET (R \ P) : StopEffect(S)
               /\ crashed' = TRUE
    /\ UNCHANGED <<registered, removeDone, notRecVars>>

\* ------------------------------------------------------------------------
\* web layer: handleCameraStart, handleCameraStop
\* ------------------------------------------------------------------------

\* The router serves requests: server.Start ignores the context, so it goes
\* on serving after cancel().
Serving == phase # "setup" /\ Alive

\* The error RecorderManager.StartCamera returns.
StartCameraError(c, mkdirOk) ==
    IF ~registered[c] THEN "not found" ELSE StartError(c, mkdirOk)

\* RecorderManager.StartCamera(c.Request.Context(), name), called by
\* handleCameraStart: the goroutine gets the context of the request.
StartCamera(c, mkdirOk) ==
    /\ Serving
    /\ IF ~registered[c]
       THEN UNCHANGED recorderFields
       ELSE RecorderStart(c, "req", mkdirOk)
    /\ UNCHANGED <<phase, registered, removeDone, crashed, notRecVars>>

\* RecorderManager.StopCamera(name), called by handleCameraStop.  A panic of
\* Stop unwinds through the deferred unlocks and is caught by gin.Recovery:
\* the recorder is left as it was.
StopCamera(c) ==
    /\ Serving
    /\ IF ~registered[c] \/ StopPanics(c)
       THEN UNCHANGED recorderFields
       ELSE StopEffect({c})
    /\ UNCHANGED <<phase, registered, removeDone, crashed, notRecVars>>

\* What RecorderManager.StopCamera hands back to its caller: the function has
\* no result, whether the name is registered or not.
StopCameraResult(c) == "none"

\* The status handleCameraStop answers with: it has one response only.
handleCameraStopStatus(c) == 200

\* The `ok` of RecorderManager.GetRecorder.
GetRecorderOk(c) == registered[c]

\* handleCameraStart returns: net/http cancels the request context that the
\* goroutine was started with.
HandlerReturn(c, l) ==
    /\ Alive
    /\ lctx[c][l] = "req"
    /\ ~reqDone[c][l]
    /\ reqDone' = [reqDone EXCEPT ![c][l] = TRUE]
    /\ UNCHANGED <<phase, registered, removeDone, running, stopClosed,
                   lastError,
                   startTime, cmd, cmdProc, nloops, pc, lctx, child, invoked,
                   crashed, notRecVars>>

\* ------------------------------------------------------------------------
\* Recorder.runRecorder, one action per step of the goroutine
\* ------------------------------------------------------------------------

loopFrame == <<phase, registered, removeDone, running, stopClosed, startTime,
               nloops,
               lctx, reqDone, crashed, notRecVars>>

StopSignalledNever(c) == FALSE

\* `case <-r.stopCh` is ready.
StopSignalled(c) == stopClosed[c]

\* The select at the top of the loop: a ready channel wins over default.
Select(c, l) ==
    /\ Alive
    /\ pc[c][l] = "select"
    /\ pc' = [pc EXCEPT ![c][l] =
          IF CtxDone(c, l) \/ StopSignalled(c) THEN "stopff" ELSE "segment"]
    /\ UNCHANGED <<loopFrame, lastError, cmd, cmdProc, child, invoked>>

\* recordSegment: r.cmd is replaced, then cmd.Run starts ffmpeg.  exec refuses
\* to start under a context that is already done, and recordSegment then
\* returns nil; otherwise the start may fail (ok = FALSE), which runRecorder
\* records in lastError before it sleeps, or succeed.
Launch(c, l, ok) ==
    /\ Alive
    /\ pc[c][l] = "segment"
    /\ cmd' = [cmd EXCEPT ![c] = l]
    /\ invoked' = [invoked EXCEPT ![c][l] = TRUE]
    /\ IF CtxDone(c, l)
       THEN /\ cmdProc' = [cmdProc EXCEPT ![c] = FALSE]
            /\ pc' = [pc EXCEPT ![c][l] = "select"]
            /\ UNCHANGED <<child, lastError>>
       ELSE IF ok
       THEN /\ cmdProc' = [cmdProc EXCEPT ![c] = TRUE]
            /\ child' = [child EXCEPT ![c][l] = "active"]
            /\ pc' = [pc EXCEPT ![c][l] = "run"]
            /\ UNCHANGED lastError
       ELSE /\ cmdProc' = [cmdProc EXCEPT ![c] = FALSE]
            /\ lastError' = [lastError EXCEPT ![c] = "ffmpeg error"]
            /\ pc' = [pc EXCEPT ![c][l] = "sleep"]
            /\ UNCHANGED child
    /\ UNCHANGED loopFrame

CancelSwallowedNever(c, l) == FALSE

\* `if ctx.Err() == context.Canceled { return nil }`: the error of cmd.Run is
\* not handed to runRecorder.
CancelSwallowed(c, l) == CtxDone(c, l)

\* The child exits (end of the segment, failure of the source, interrupt, or
\* kill by the context) and cmd.Run returns.  An error exit is recorded in
\* lastError and followed by the backoff unless the context is cancelled.
\* After a fatal panic only the orphaned child is left to exit.
ChildExit(c, l, ok) ==
    /\ ChildAlive(c, l)
    /\ child' = [child EXCEPT ![c][l] = "none"]
    /\ IF ~Alive
       THEN UNCHANGED <<pc, lastError>>
       ELSE IF ~ok /\ ~CancelSwallowed(c, l)
       THEN /\ pc' = [pc EXCEPT ![c][l] = "sleep"]
            /\ lastError' = [lastError EXCEPT ![c] = "ffmpeg error"]
       ELSE /\ pc' = [pc EXCEPT ![c][l] = "select"]
            /\ UNCHANGED lastError
    /\ UNCHANGED <<loopFrame, cmd, cmdProc, invoked>>

\* time.Sleep(5 * time.Second) elapses.
Backoff(c, l) ==
    /\ Alive
    /\ pc[c][l] = "sleep"
    /\ pc' = [pc EXCEPT ![c][l] = "select"]
    /\ UNCHANGED <<loopFrame, lastError, cmd, cmdProc, child, invoked>>

\* stopFFmpeg, then return: interrupt the process r.cmd points at, if it has
\* one, and Wait.  Wait on a process that cmd.Run of another goroutine is
\* waiting for may return before the child has exited.
StopFFmpeg(c, l) ==
    /\ Alive
    /\ pc[c][l] = "stopff"
    /\ child' = IF cmd[c] # 0 /\ cmdProc[c]
                THEN [child EXCEPT ![c][cmd[c]] =
                        IF @ = "active" THEN "signalled" ELSE @]
                ELSE child
    /\ pc' = [pc EXCEPT ![c][l] = "done"]
    /\ UNCHANGED <<loopFrame, lastError, cmd, cmdProc, invoked>>

LoopStep(c, l) ==
    \/ Select(c, l)
    \/ \E ok \in BOOLEAN : Launch(c, l, ok)
    \/ Backoff(c, l)
    \/ StopFFmpeg(c, l)

Next ==
    \/ \E c \in Cams, enabled, mkdirOk \in BOOLEAN : AddCamera(c, enabled, mkdirOk)
    \/ ServerStart
    \/ Cancel
    \/ StopAll
    \/ \E c \in Cams, mkdirOk \in BOOLEAN : StartCamera(c, mkdirOk)
    \/ \E c \in Cams : StopCamera(c)
    \/ \E c \in Cams, l \in Loops : HandlerReturn(c, l)
    \/ \E c \in Cams, l \in Loops : LoopStep(c, l)
    \/ \E c \in Cams, l \in Loops, ok \in BOOLEAN : ChildExit(c, l, ok)

Spec == Init /\ [][Next]_vars

\* The Go scheduler runs every runnable goroutine, a handler returns, and
\* a child exits: at the end of its -t duration at the latest.
Fairness ==
    /\ \A c \in Cams, l \in Loops : WF_vars(LoopStep(c, l))
    /\ \A c \in Cams, l \in Loops : WF_vars(HandlerReturn(c, l))
    /\ \A c \in Cams, l \in Loops : WF_vars(\E ok \in BOOLEAN : ChildExit(c, l, ok))

FairSpec == Spec /\ Fairness

\* The registry with every operation of its API: RemoveCamera has no caller
\* in main or in the web layer.
RegistryNext ==
    \/ Next
    \/ \E c \in Cams, recovered \in BOOLEAN : RemoveCamera(c, recovered)

RegistrySpec == Init /\ [][RegistryNext]_vars

\* ------------------------------------------------------------------------
\* MJPEGStreamer.readFrames and bytesIndex
\* ------------------------------------------------------------------------

\* []byte{0xFF, 0xD8} and []byte{0xFF, 0xD9}
SOI == <<255, 216>>
EOI == <<255, 217>>

\* The Go slice s[a:b], with Go's indices from 0.
Slice(s, a, b) == SubSeq(s, a + 1, b)

\* bytesIndex(data, pattern): the first index i, from 0, at which pattern
\* occurs in data, or -1.
bytesIndex(data, pattern) ==
    LET hits == {i \in 0..(Len(data) - Len(pattern)) :
                    \A j \in 0..(Len(pattern) - 1) : data[i + j + 1] = pattern[j + 1]}
    IN IF hits = {} THEN -1
       ELSE CHOOSE i \in hits : \A h \in hits : i <= h

FrameEndShort(startIdx, endIdx) == endIdx + startIdx + 1

\* `endIdx += startIdx + 2`
FrameEnd(startIdx, endIdx) == endIdx + startIdx + 2

NoEndMarkerNever(endIdx) == FALSE

\* `if endIdx == -1 { break }`
NoEndMarker(endIdx) == endIdx = -1

\* `accumulator = accumulator[len(accumulator)/2:]` once it exceeds the cap.
DropOlderHalf(acc) ==
    IF Len(acc) > AccCap THEN Slice(acc, Len(acc) \div 2, Len(acc)) ELSE acc

RestOverlapping(acc, end) == Slice(acc, end - 1, Len(acc))

\* `accumulator = accumulator[endIdx:]`
Rest(acc, end) == Slice(acc, end, Len(acc))

\* The inner loop of readFrames on accumulator acc, out being the frames
\* handed to the callback so far: the accumulator it leaves and the frames.
RECURSIVE Scan(_, _)
Scan(acc, out) ==
    LET startIdx == bytesIndex(acc, SOI) IN
    IF startIdx = -1
    THEN [acc |-> DropOlderHalf(acc), out |-> out]
    ELSE LET endIdx == bytesIndex(Slice(acc, startIdx, Len(acc)), EOI) IN
         IF NoEndMarker(endIdx)
         THEN [acc |-> acc, out |-> out]
         ELSE LET end == FrameEnd(startIdx, endIdx) IN
              Scan(Rest(acc, end),
                   Append(out, Slice(acc, startIdx, end)))

\* All byte sequences of length 1..n.
ByteSeqs(n) == UNION {[1..k -> Bytes] : k \in 1..n}

\* One frame per sample body.
Frames == {SOI \o b \o EOI : b \in Bodies}

RECURSIVE Concat(_)
Concat(fs) == IF fs = <<>> THEN <<>> ELSE Head(fs) \o Concat(Tail(fs))

\* The sequences of 1..MaxFrames frames.
FrameSeqs == UNION {[1..k -> Frames] : k \in 1..MaxFrames}

\* One pass of the outer loop: stdout.Read returns buf (the frames fs, if
\* it is a run of whole frames), it is appended and the inner loop runs.
ReadUpTo(buf, fs, maxLen) ==
    /\ rpc = "read"
    /\ LET r == Scan(accumulator \o buf, <<>>) IN
        /\ Len(r.acc) <= maxLen
        /\ accumulator' = r.acc
        /\ emitted' = r.out
    /\ preAcc' = accumulator
    /\ chunk' = buf
    /\ sent' = fs
    /\ rpc' = "pass"
    /\ UNCHANGED notDemuxVars

Read(buf, fs) == ReadUpTo(buf, fs, MaxAccLen)

\* The outer loop comes round to its select with stopCh open.
NextPass ==
    /\ rpc = "pass"
    /\ rpc' = "read"
    /\ emitted' = <<>>
    /\ preAcc' = <<>>
    /\ chunk' = <<>>
    /\ sent' = <<>>
    /\ UNCHANGED <<accumulator, notDemuxVars>>

\* stopCh is found closed, or stdout.Read returns an error (end of stream):
\* readFrames returns.
ReadEnds ==
    /\ rpc = "read"
    /\ rpc' = "returned"
    /\ UNCHANGED <<accumulator, emitted, preAcc, chunk, sent, notDemuxVars>>

DemuxNext ==
    \/ \E buf \in ByteSeqs(MaxChunkLen) : Read(buf, <<>>)
    \/ \E fs \in FrameSeqs : Read(Concat(fs), fs)
    \/ NextPass
    \/ ReadEnds

DemuxSpec == Init /\ [][DemuxNext]_vars

\* Longest accumulator followed when every Read returns at most MaxChunkLen
\* bytes of any content.
StallAccLen == AccCap + MaxChunkLen + 1

\* readFrames on a stream that need not hold a whole frame.
StallNext ==
    \/ \E buf \in ByteSeqs(MaxChunkLen) : ReadUpTo(buf, <<>>, StallAccLen)
    \/ NextPass
    \/ ReadEnds

StallSpec == Init /\ [][StallNext]_vars

\* ------------------------------------------------------------------------
\* MJPEGManager: frame slot, cond and the live-stream requests, for one name
\* ------------------------------------------------------------------------

\* MJPEGManager.Start(ctx, name, url): no-op when the name has a streamer,
\* else a new streamer, a nil slot and a new cond.
MjpegStart ==
    /\ muHeld = 0
    /\ IF streaming
       THEN UNCHANGED <<streaming, condGen, frames, ppc>>
       ELSE /\ condGen < MaxGens
            /\ streaming' = TRUE
            /\ condGen' = condGen + 1
            /\ frames' = Slot("nil")
            /\ ppc' = [ppc EXCEPT ![condGen + 1] = "idle"]
    /\ UNCHANGED <<muHeld, condL, published, pcond, sstopped, cpc, ccond,
                   cframe, ctrig, notSlotVars>>

\* MJPEGManager.Stop(name) (StopAll, for the one name): the streamer is
\* stopped and the three map entries are deleted.
MjpegStop ==
    /\ muHeld = 0
    /\ IF streaming
       THEN /\ sstopped' = [sstopped EXCEPT ![condGen] = TRUE]
            /\ streaming' = FALSE
            /\ frames' = Slot("absent")
       ELSE UNCHANGED <<sstopped, streaming, frames>>
    /\ UNCHANGED <<condGen, muHeld, condL, published, ppc, pcond, cpc, ccond,
                   cframe, ctrig, notSlotVars>>

\* ---- the frame callback of streamer g, called by its readFrames ----

callbackFrame == <<streaming, condGen, sstopped, cpc, ccond, cframe,
                   notSlotVars>>

\* `cond, ok := m.conds[name]` under the read lock; `if !ok { return }`.
Lookup(g) ==
    /\ ppc[g] = "idle"
    /\ published < MaxPubs
    /\ muHeld = 0
    /\ IF streaming
       THEN /\ pcond' = [pcond EXCEPT ![g] = condGen]
            /\ ppc' = [ppc EXCEPT ![g] = "got"]
       ELSE UNCHANGED <<pcond, ppc>>
    /\ UNCHANGED <<callbackFrame, frames, muHeld, condL, published, ctrig>>

\* `cond.L.Lock()`
LockCond(g) ==
    /\ ppc[g] = "got"
    /\ condL[pcond[g]] = "free"
    /\ condL' = [condL EXCEPT ![pcond[g]] = "callback"]
    /\ ppc' = [ppc EXCEPT ![g] = "locked"]
    /\ UNCHANGED <<callbackFrame, frames, muHeld, published, pcond, ctrig>>

\* `m.mu.Lock(); m.frames[name] = make([]byte, len(frame))`
MakeSlot(g) ==
    /\ ppc[g] = "locked"
    /\ muHeld = 0
    /\ muHeld' = g
    /\ frames' = Slot("zeroed")
    /\ ppc' = [ppc EXCEPT ![g] = "made"]
    /\ UNCHANGED <<callbackFrame, condL, published, pcond, ctrig>>

WokenNone(k) == {}

\* The requests a Broadcast on cond k wakes: those blocked in its Wait.
Woken(k) == {v \in Viewers : cpc[v] = "waiting" /\ ccond[v] = k}

\* `copy(m.frames[name], frame); m.mu.Unlock(); cond.Broadcast();
\* cond.L.Unlock()`
Publish(g) ==
    /\ ppc[g] = "made"
    /\ published' = published + 1
    /\ frames' = Frame(published + 1)
    /\ muHeld' = 0
    /\ cpc' = [v \in Viewers |->
                 IF v \in Woken(pcond[g]) THEN "woken" ELSE cpc[v]]
    /\ ctrig' = [v \in Viewers |->
                 IF v \in Woken(pcond[g]) THEN published + 1 ELSE ctrig[v]]
    /\ condL' = [condL EXCEPT ![pcond[g]] = "free"]
    /\ ppc' = [ppc EXCEPT ![g] = "idle"]
    /\ pcond' = [pcond EXCEPT ![g] = 0]
    /\ UNCHANGED <<streaming, condGen, sstopped, ccond, cframe, notSlotVars>>

\* readFrames of a stopped streamer returns (stopCh closed, or the pipe at
\* its end): no further callback.
ReaderReturns(g) ==
    /\ ppc[g] = "idle"
    /\ sstopped[g]
    /\ ppc' = [ppc EXCEPT ![g] = "returned"]
    /\ UNCHANGED <<callbackFrame, frames, muHeld, condL, published, pcond,
                   ctrig>>

\* ---- handleLiveStream, request v ----

viewerFrame == <<streaming, condGen, frames, muHeld, published, ppc, pcond,
                 sstopped, notSlotVars>>

\* `cond, ok := s.mjpeg.GetCond(name)`; 404 when the name has no cond.
Open(v) ==
    /\ cpc[v] = "out"
    /\ muHeld = 0
    /\ streaming
    /\ ccond' = [ccond EXCEPT ![v] = condGen]
    /\ cpc' = [cpc EXCEPT ![v] = "top"]
    /\ UNCHANGED <<viewerFrame, condL, cframe, ctrig>>

\* `cond.L.Lock(); cond.Wait()`: the request joins the waiters and lets L go.
Wait(v) ==
    /\ cpc[v] = "top"
    /\ condL[ccond[v]] = "free"
    /\ cpc' = [cpc EXCEPT ![v] = "waiting"]
    /\ UNCHANGED <<viewerFrame, condL, ccond, cframe, ctrig>>

\* Wait returns: the woken request has L again.
Relock(v) ==
    /\ cpc[v] = "woken"
    /\ condL[ccond[v]] = "free"
    /\ condL' = [condL EXCEPT ![ccond[v]] = v]
    /\ cpc' = [cpc EXCEPT ![v] = "read"]
    /\ UNCHANGED <<viewerFrame, ccond, cframe, ctrig>>

SlotReadableAlways == TRUE

\* GetFrame takes m.mu.RLock: it waits while a callback holds the write lock.
SlotReadable == muHeld = 0

\* `frame, ok := s.mjpeg.GetFrame(name); cond.L.Unlock()`, then
\* `if !ok || len(frame) == 0 { continue }`.
GetFrame(v) ==
    /\ cpc[v] = "read"
    /\ SlotReadable
    /\ condL' = [condL EXCEPT ![ccond[v]] = "free"]
    /\ IF frames.kind \in {"absent", "nil"}
       THEN /\ cpc' = [cpc EXCEPT ![v] = "top"]
            /\ cframe' = [cframe EXCEPT ![v] = Slot("absent")]
            /\ ctrig' = [ctrig EXCEPT ![v] = 0]
       ELSE /\ cpc' = [cpc EXCEPT ![v] = "deliver"]
            /\ cframe' = [cframe EXCEPT ![v] = frames]
            /\ ctrig' = ctrig
    /\ UNCHANGED <<viewerFrame, ccond>>

\* The frame is written to the client and flushed; the request's locals are
\* dead until the next pass.
Deliver(v) ==
    /\ cpc[v] = "deliver"
    /\ cpc' = [cpc EXCEPT ![v] = "top"]
    /\ cframe' = [cframe EXCEPT ![v] = Slot("absent")]
    /\ ctrig' = [ctrig EXCEPT ![v] = 0]
    /\ UNCHANGED <<viewerFrame, condL, ccond>>

\* `case <-c.Request.Context().Done(): return`
Close(v) ==
    /\ cpc[v] = "top"
    /\ cpc' = [cpc EXCEPT ![v] = "out"]
    /\ ccond' = [ccond EXCEPT ![v] = 0]
    /\ UNCHANGED <<viewerFrame, condL, cframe, ctrig>>

SlotNext ==
    \/ MjpegStart
    \/ MjpegStop
    \/ \E g \in Gens : Lookup(g)
    \/ \E g \in Gens : LockCond(g)
    \/ \E g \in Gens : MakeSlot(g)
    \/ \E g \in Gens : Publish(g)
    \/ \E g \in Gens : ReaderReturns(g)
    \/ \E v \in Viewers : Open(v)
    \/ \E v \in Viewers : Wait(v)
    \/ \E v \in Viewers : Relock(v)
    \/ \E v \in Viewers : GetFrame(v)
    \/ \E v \in Viewers : Deliver(v)
    \/ \E v \in Viewers : Close(v)

SlotSpec == Init /\ [][SlotNext]_vars

\* ---- the live-stream requests with their clients ----

\* The client of request v goes away: net/http cancels the request context.
Disconnect(v) ==
    /\ cpc[v] # "out"
    /\ ~clientGone[v]
    /\ clientGone' = [clientGone EXCEPT ![v] = TRUE]
    /\ UNCHANGED notViewVars

\* The steps of handleLiveStream for request v.  At the select a done
\* context wins over default, so a request whose client is gone returns
\* there and one whose client is connected goes on to Wait; nowhere else
\* does the handler look at the context.
ViewerStep(v) ==
    \/ ~clientGone[v] /\ Open(v)
    \/ ~clientGone[v] /\ Wait(v)
    \/ Relock(v)
    \/ GetFrame(v)
    \/ Deliver(v)
    \/ clientGone[v] /\ Close(v)

\* The steps of the frame callback of streamer g and of its readFrames.
StreamerStep(g) ==
    \/ Lookup(g)
    \/ LockCond(g)
    \/ MakeSlot(g)
    \/ Publish(g)
    \/ ReaderReturns(g)

ViewNext ==
    \/ MjpegStart
    \/ MjpegStop
    \/ \E g \in Gens : StreamerStep(g)
    \/ \E v \in Viewers : ViewerStep(v)
    \/ \E v \in Viewers : Disconnect(v)

ViewSpec == Init /\ [][ViewNext]_vars

\* The scheduler runs every handler and every streamer goroutine that can
\* take a step.
ViewFairness ==
    /\ \A v \in Viewers : WF_vars(ViewerStep(v))
    /\ \A g \in Gens : WF_vars(StreamerStep(g))

FairViewSpec == ViewSpec /\ ViewFairness

\* ------------------------------------------------------------------------
\* MJPEGManager.Start / Stop and the life of an MJPEGStreamer, for one name
\* ------------------------------------------------------------------------

\* MJPEGManager.Start(ctx, name, url): nothing when the name has a streamer;
\* else a new streamer is put in the map and `go streamer.Start(ctx, ...)`
\* is spawned.
ManagerStart ==
    /\ IF sreg # 0
       THEN UNCHANGED <<sreg, sgen, spc>>
       ELSE /\ sgen < MaxGens
            /\ sgen' = sgen + 1
            /\ sreg' = sgen + 1
            /\ spc' = [spc EXCEPT ![sgen + 1] = "spawned"]
    /\ UNCHANGED <<srunning, sstopCh, schild, sctxDone, notStreamVars>>

\* `if !m.running { return }`
StreamerStopReturnsEarly(g) == ~srunning[g]

\* MJPEGStreamer.Stop: unless it returns early, close(m.stopCh), interrupt
\* the child and Wait for it, running = false.
StreamerStop(g) ==
    IF StreamerStopReturnsEarly(g)
    THEN UNCHANGED <<srunning, sstopCh, schild>>
    ELSE /\ sstopCh' = [sstopCh EXCEPT ![g] = TRUE]
         /\ schild' = [schild EXCEPT ![g] = "none"]
         /\ srunning' = [srunning EXCEPT ![g] = FALSE]

\* MJPEGManager.Stop(name) (StopAll, for the one name): the streamer of the
\* map is stopped and the name deleted.
ManagerStop ==
    /\ IF sreg # 0
       THEN /\ StreamerStop(sreg)
            /\ sreg' = 0
       ELSE UNCHANGED <<sreg, srunning, sstopCh, schild>>
    /\ UNCHANGED <<sgen, spc, sctxDone, notStreamVars>>

\* The goroutine of `go streamer.Start(ctx, callback)` runs: cmd.Start
\* fails under a context that is done or for a reason of its own (ok =
\* FALSE) and Start returns the error to nobody; else the child runs,
\* running is set and readFrames is started.
StreamerStart(g, ok) ==
    /\ spc[g] = "spawned"
    /\ IF sctxDone[g] \/ ~ok
       THEN /\ spc' = [spc EXCEPT ![g] = "failed"]
            /\ UNCHANGED <<srunning, schild>>
       ELSE /\ spc' = [spc EXCEPT ![g] = "reading"]
            /\ srunning' = [srunning EXCEPT ![g] = TRUE]
            /\ schild' = [schild EXCEPT ![g] = "active"]
    /\ UNCHANGED <<sreg, sgen, sstopCh, sctxDone, notStreamVars>>

\* The context of the streamer is cancelled (shutdown, or the return of the
\* handler whose request context it was given).
StreamCtxCancel(g) ==
    /\ spc[g] # "none"
    /\ ~sctxDone[g]
    /\ sctxDone' = [sctxDone EXCEPT ![g] = TRUE]
    /\ UNCHANGED <<sreg, sgen, spc, srunning, sstopCh, schild, notStreamVars>>

\* The child exits: the source failed or ended, or exec killed it when the
\* context was cancelled.
StreamChildExit(g) ==
    /\ schild[g] = "active"
    /\ schild' = [schild EXCEPT ![g] = "none"]
    /\ UNCHANGED <<sreg, sgen, spc, srunning, sstopCh, sctxDone, notStreamVars>>

\* readFrames returns: stdout.Read reports the end of the pipe, or stopCh
\* is found closed.  Nothing else is done: running is left as it is.
ReadFramesReturns(g) ==
    /\ spc[g] = "reading"
    /\ schild[g] = "none" \/ sstopCh[g]
    /\ spc' = [spc EXCEPT ![g] = "ended"]
    /\ UNCHANGED <<sreg, sgen, srunning, sstopCh, schild, sctxDone, notStreamVars>>

\* The steps the goroutines of streamer g take by themselves.
StreamerRuns(g) ==
    \/ \E ok \in BOOLEAN : StreamerStart(g, ok)
    \/ ReadFramesReturns(g)

StreamNext ==
    \/ ManagerStart
    \/ ManagerStop
    \/ \E g \in Gens : StreamerRuns(g)
    \/ \E g \in Gens : StreamCtxCancel(g)
    \/ \E g \in Gens : StreamChildExit(g)

StreamSpec == Init /\ [][StreamNext]_vars

\* The scheduler runs the goroutines.
StreamFairness == \A g \in Gens : WF_vars(StreamerRuns(g))

FairStreamSpec == StreamSpec /\ StreamFairness

\* ------------------------------------------------------------------------
\* storage.Manager: retention sweep and statistics
\* ------------------------------------------------------------------------

\* The directory an entry lies in ("" is the output root itself).
DirOf(p) ==
    CASE p \in {"CamA/a.mp4", "CamA/b.tmp", "CamA/sub"} -> "CamA"
      [] p = "CamB/c.mp4" -> "CamB"
      [] OTHER -> ""

\* entry.IsDir()
IsDir(p) == p = "CamA/sub"

\* strings.HasSuffix(entry.Name(), "."+m.config.Format)
HasFormat(p) == p \in {"CamA/a.mp4", "CamB/c.mp4", "stray.mp4"}

\* info.Size()
SizeOf(p) ==
    CASE p = "CamA/a.mp4" -> 1
      [] p = "CamA/b.tmp" -> 2
      [] p = "CamB/c.mp4" -> 4
      [] OTHER -> 8

RECURSIVE SumSize(_)
SumSize(S) ==
    IF S = {} THEN 0
    ELSE LET p == CHOOSE x \in S : TRUE IN SizeOf(p) + SumSize(S \ {p})

\* A day passes.
Tick ==
    /\ now < MaxDay
    /\ now' = now + 1
    /\ UNCHANGED <<rootExists, present, mtime, sweeping, counting, todo, lastCleanup,
                   deletedCount, deletedSize, cleanupRet,
                   notStoreVars>>

\* Something writes the entry p: ffmpeg a segment, which it may write again
\* later (Recorder.Start has made the directory), or anything else a file or
\* directory.  No lock of the storage manager is involved.
WriteEntry(p) ==
    /\ present' = [present EXCEPT ![p] = TRUE]
    /\ mtime' = [mtime EXCEPT ![p] = now]
    /\ rootExists' = TRUE
    /\ (present[p] => (mtime[p] # now /\ HasFormat(p) /\ DirOf(p) # ""))
    /\ UNCHANGED <<now, sweeping, counting, todo, lastCleanup, deletedCount,
                   deletedSize, cleanupRet, notStoreVars>>

\* The output root is removed from outside, with all it holds.
RemoveRoot ==
    /\ rootExists
    /\ rootExists' = FALSE
    /\ present' = [p \in Paths |-> FALSE]
    /\ mtime' = [p \in Paths |-> 0]
    /\ UNCHANGED <<now, sweeping, counting, todo, lastCleanup, deletedCount,
                   deletedSize, cleanupRet, notStoreVars>>

\* `time.Now().AddDate(0, 0, -m.config.RetentionDays)`
Cutoff(t) == t - RetentionDays

BeforeOrAt(t, c) == t <= c

\* `info.ModTime().Before(cutoff)`
Before(t, c) == t < c

\* cleanup, up to the ReadDir of the output root: the lock is taken,
\* lastCleanup and the cutoff are taken from the clock.  A missing root ends the sweep with
\* nil, another error (readable = FALSE) with that error.
CleanupBegin(readable) ==
    /\ ~sweeping /\ ~counting
    /\ lastCleanup' = now
    /\ deletedCount' = 0
    /\ deletedSize' = 0
    /\ IF ~rootExists
       THEN sweeping' = FALSE /\ todo' = {} /\ cleanupRet' = "nil"
       ELSE IF ~readable
       THEN sweeping' = FALSE /\ todo' = {} /\ cleanupRet' = "err"
       ELSE sweeping' = TRUE /\ todo' = CameraDirs /\ cleanupRet' = "none"
    /\ UNCHANGED <<now, rootExists, present, mtime, counting,
                   notStoreVars>>

\* The entries of camera directory d the sweep tries to remove.
Expired(d) ==
    {p \in Paths : DirOf(p) = d /\ present[p] /\ ~IsDir(p)
                     /\ Before(mtime[p], Cutoff(lastCleanup))}

CountedWithFailed(gone, fails) == gone \cup fails

\* The files that reach `deletedCount++`: a failed os.Remove leaves the pass
\* of the inner loop by `continue` before it.
Counted(gone, fails) == gone

\* One pass of the outer loop of cleanup, for camera directory d: ReadDir
\* fails (readable = FALSE) and the directory is skipped, or every expired
\* file is removed except those of fails, whose os.Remove returns an error.
CleanupDir(d, readable, fails) ==
    /\ sweeping
    /\ d \in todo
    /\ todo' = todo \ {d}
    /\ LET gone == IF readable /\ rootExists THEN Expired(d) \ fails ELSE {} IN
        /\ present' = [p \in Paths |-> present[p] /\ p \notin gone]
        /\ mtime' = [p \in Paths |-> IF p \in gone THEN 0 ELSE mtime[p]]
        /\ deletedCount' = deletedCount + Cardinality(Counted(gone, fails))
        /\ deletedSize' = deletedSize + SumSize(Counted(gone, fails))
    /\ UNCHANGED <<now, rootExists, sweeping, counting, lastCleanup, cleanupRet, notStoreVars>>

\* The outer loop is through: the summary is printed, nil returned and the
\* lock released.
CleanupEnd ==
    /\ sweeping
    /\ todo = {}
    /\ sweeping' = FALSE
    /\ cleanupRet' = "nil"
    /\ UNCHANGED <<now, rootExists, present, mtime, counting, todo, lastCleanup,
                   deletedCount, deletedSize, notStoreVars>>

StatsMayEnterAlways == TRUE

\* `m.mu.Lock()` of GetStats.
StatsMayEnter == ~sweeping /\ ~counting

\* GetStats takes the lock.
StatsBegin ==
    /\ StatsMayEnter
    /\ counting' = TRUE
    /\ UNCHANGED <<now, rootExists, present, mtime, sweeping, todo, lastCleanup,
                   deletedCount, deletedSize, cleanupRet, notStoreVars>>

\* StorageStats.FileCount: the files of the configured format directly in
\* the camera directories.
StatsFileCount ==
    Cardinality({p \in Paths : present[p] /\ DirOf(p) # ""
                                 /\ ~IsDir(p) /\ HasFormat(p)})

\* GetStats has walked the camera directories and releases the lock.
StatsEnd ==
    /\ counting
    /\ counting' = FALSE
    /\ UNCHANGED <<now, rootExists, present, mtime, sweeping, todo, lastCleanup,
                   deletedCount, deletedSize, cleanupRet, notStoreVars>>

StoreNext ==
    \/ Tick
    \/ \E p \in Paths : WriteEntry(p)
    \/ RemoveRoot
    \/ \E readable \in BOOLEAN : CleanupBegin(readable)
    \/ \E d \in CameraDirs, readable \in BOOLEAN :
          \E fails \in SUBSET Expired(d) : CleanupDir(d, readable, fails)
    \/ CleanupEnd
    \/ StatsBegin
    \/ StatsEnd

StoreSpec == Init /\ [][StoreNext]_vars

\* ------------------------------------------------------------------------
\* Strings and paths: strings.ReplaceAll, strings.HasPrefix, filepath.Clean
\* and filepath.Join, on strings spelled as sequences of characters
\* ------------------------------------------------------------------------

\* `strings.ReplaceAll(s, old, new)` for old and new of one character.
ReplaceAll(s, old, new) ==
    [i \in 1..Len(s) |-> IF s[i] = old THEN new ELSE s[i]]

\* `strings.HasPrefix(s, prefix)`: s begins with the characters of prefix.
HasPrefix(s, prefix) ==
    /\ Len(s) >= Len(prefix)
    /\ SubSeq(s, 1, Len(prefix)) = prefix

\* The elements of a path, cut at each separator.
RECURSIVE SplitPath(_)
SplitPath(s) ==
    IF s = <<>> THEN << <<>> >>
    ELSE LET rest == SplitPath(Tail(s)) IN
         IF Head(s) = "/" THEN << <<>> >> \o rest
         ELSE << <<Head(s)>> \o Head(rest) >> \o Tail(rest)

\* The elements written with a separator between them.
RECURSIVE JoinElems(_)
JoinElems(elems) ==
    IF elems = <<>> THEN <<>>
    ELSE IF Len(elems) = 1 THEN Head(elems)
    ELSE Head(elems) \o <<"/">> \o JoinElems(Tail(elems))

\* The lexical processing of filepath.Clean over the elements: empty and
\* "." elements are dropped, a ".." takes the element before it away, a
\* ".." at the start stays unless the path is rooted.
RECURSIVE CleanElems(_, _, _)
CleanElems(elems, out, rooted) ==
    IF elems = <<>> THEN out
    ELSE LET e == Head(elems) IN
         IF e = <<>> \/ e = <<".">> THEN CleanElems(Tail(elems), out, rooted)
         ELSE IF e # <<".", ".">>
         THEN CleanElems(Tail(elems), Append(out, e), rooted)
         ELSE IF out # <<>> /\ out[Len(out)] # <<".", ".">>
         THEN CleanElems(Tail(elems), SubSeq(out, 1, Len(out) - 1), rooted)
         ELSE IF rooted THEN CleanElems(Tail(elems), out, rooted)
         ELSE CleanElems(Tail(elems), Append(out, e), rooted)

\* `filepath.Clean(path)`: the shortest path name equivalent to path by
\* lexical processing; "." for the empty result.
Clean(path) ==
    LET rooted == path # <<>> /\ path[1] = "/"
        body == JoinElems(CleanElems(SplitPath(path), <<>>, rooted))
        res == IF rooted THEN <<"/">> \o body ELSE body
    IN IF res = <<>> THEN <<".">> ELSE res

\* `filepath.Join(elem...)`: the elements that are not empty, joined by a
\* separator, and cleaned; the empty string if there is none.
Join(elems) ==
    LET some == SelectSeq(elems, LAMBDA e : e # <<>>) IN
    IF some = <<>> THEN <<>> ELSE Clean(JoinElems(some))

\* `output_dir: "./recordings"`, spelled short.
OutputDir == <<".", "/", "r">>

\* ------------------------------------------------------------------------
\* Recorder.recordSegment: the name of the segment file
\* ------------------------------------------------------------------------

\* Width of the seconds count in a stamp; the layout "20060102_150405" has
\* fixed-width fields, most significant first.
StampWidth == 2

RECURSIVE Digits(_, _)
Digits(n, w) == IF w = 0 THEN <<>> ELSE Append(Digits(n \div 10, w - 1), n % 10)

\* `time.Now().Format("20060102_150405")`: the time cut to whole seconds, in
\* fixed-width decimal fields.
Format(t) == Digits(t \div TicksPerSecond, StampWidth)

\* The configured name of camera c, spelled out: names may hold a space, as
\* "Front Door".
CameraName(c) == <<"C", "a", "m", " ", c>>

\* `strings.ReplaceAll(r.cameraName, " ", "_")`
SafeName(name) == ReplaceAll(name, " ", "_")

\* `fmt.Sprintf("%s_%s.%s", safeName, timestamp, r.config.Format)`
Filename(c, t) ==
    [name |-> SafeName(CameraName(c)), stamp |-> Format(t), ext |-> "mp4"]

RECURSIVE LexLess(_, _)
LexLess(a, b) ==
    IF b = <<>> THEN FALSE
    ELSE IF a = <<>> THEN TRUE
    ELSE IF Head(a) # Head(b) THEN Head(a) < Head(b)
    ELSE LexLess(Tail(a), Tail(b))

\* Lexical order of two file names of one camera: the prefix and the
\* extension are the same, so the stamps decide.
FilenameLess(f, g) == f.name = g.name /\ f.ext = g.ext /\ LexLess(f.stamp, g.stamp)

\* The clock advances.
ClockTick ==
    /\ clock < MaxTicks
    /\ clock' = clock + 1
    /\ UNCHANGED <<segments, notNameVars>>

\* runRecorder calls recordSegment, which builds the output path from the
\* time of the call.
RecordSegment(c) ==
    /\ Len(segments[c]) < MaxSegments
    /\ segments' = [segments EXCEPT ![c] =
          Append(@, [at |-> clock, filename |-> Filename(c, clock)])]
    /\ UNCHANGED <<clock, notNameVars>>

NameNext ==
    \/ ClockTick
    \/ \E c \in Cams : RecordSegment(c)

NameSpec == Init /\ [][NameNext]_vars

\* ------------------------------------------------------------------------
\* The output directories of the recorders of a RecorderManager
\* ------------------------------------------------------------------------

\* The names a configuration may give its cameras: up to MaxNameLen
\* characters, among them the space and the underscore.
NameChars == {"a", " ", "_"}
CameraNames == UNION {[1..k -> NameChars] : k \in 1..MaxNameLen}

\* `recorder.New(rtspURL, cameraName, cfg)`: the output directory is the
\* configured root joined with the safe name.
New(name) ==
    [name |-> name,
     outputDir |-> Join(<<OutputDir, SafeName(name)>>),
     running |-> FALSE]

\* `rm.recorders[name]`, if the name is a key.
Named(name) == {r \in dirRecorders : r.name = name}

\* RecorderManager.AddCamera(ctx, name, url, enabled): the new recorder is
\* stored under the name, then started if enabled.
AddNamedCamera(name, enabled, mkdirOk) ==
    /\ IF Named(name) # {}
       THEN UNCHANGED dirRecorders
       ELSE /\ Cardinality(dirRecorders) < MaxCameras
            /\ dirRecorders' = dirRecorders \cup
                  {[New(name) EXCEPT !.running = enabled /\ mkdirOk]}
    /\ UNCHANGED notDirVars

\* RecorderManager.StartCamera(ctx, name): Recorder.Start sets running unless
\* it is set or the directory cannot be made.
StartNamedCamera(name, mkdirOk) ==
    /\ dirRecorders' = {IF r.name = name /\ ~r.running /\ mkdirOk
                        THEN [r EXCEPT !.running = TRUE] ELSE r :
                        r \in dirRecorders}
    /\ UNCHANGED notDirVars

\* RecorderManager.StopCamera(name): Recorder.Stop clears running.
StopNamedCamera(name) ==
    /\ dirRecorders' = {IF r.name = name THEN [r EXCEPT !.running = FALSE]
                        ELSE r : r \in dirRecorders}
    /\ UNCHANGED notDirVars

\* RecorderManager.RemoveCamera(name): stop, then delete the key.
RemoveNamedCamera(name) ==
    /\ dirRecorders' = dirRecorders \ Named(name)
    /\ UNCHANGED notDirVars

DirNext ==
    \/ \E name \in CameraNames, enabled, mkdirOk \in BOOLEAN :
          AddNamedCamera(name, enabled, mkdirOk)
    \/ \E name \in CameraNames, mkdirOk \in BOOLEAN :
          StartNamedCamera(name, mkdirOk)
    \/ \E name \in CameraNames : StopNamedCamera(name)
    \/ \E name \in CameraNames : RemoveNamedCamera(name)

DirSpec == Init /\ [][DirNext]_vars

\* ------------------------------------------------------------------------
\* storage.Manager.DeleteFile and GetFilePath
\* ------------------------------------------------------------------------

\* What a caller may pass: a camera name, or none, and a file name of up to
\* MaxDepth elements.
CameraArgs == {<<>>, <<"a">>, <<".", ".">>}
ElemArgs == {<<"x">>, <<"a">>, <<".", ".">>, <<"r", "2">>}
FileArgs == {JoinElems(es) : es \in UNION {[1..k -> ElemArgs] : k \in 1..MaxDepth}}

\* The path both calls build: `filepath.Join(m.config.OutputDir,
\* strings.ReplaceAll(cameraName, " ", "_"), filename)`, without the middle
\* element for the empty camera name.
FilePath(cameraName, filename) ==
    IF cameraName # <<>>
    THEN Join(<<OutputDir, ReplaceAll(cameraName, " ", "_"), filename>>)
    ELSE Join(<<OutputDir, filename>>)

\* `!strings.HasPrefix(filepath.Clean(filePath), filepath.Clean(OutputDir))`
InvalidPath(filePath) == ~HasPrefix(Clean(filePath), Clean(OutputDir))

\* The path names a directory: a file lies below it.
IsDirectory(p) == \E f \in disk : Len(f) > Len(p) /\ HasPrefix(f, p \o <<"/">>)

\* The error of `os.Remove(p)`: a file is removed, a directory that is not
\* empty is not.
RemoveError(p) ==
    IF p \in disk THEN "nil"
    ELSE IF IsDirectory(p) THEN "directory not empty"
    ELSE "no such file"

\* The error of `os.Stat(p)`.
StatError(p) == IF p \in disk \/ IsDirectory(p) THEN "nil" ELSE "no such file"

\* Manager.DeleteFile(cameraName, filename).
DeleteFile(cameraName, filename) ==
    LET filePath == FilePath(cameraName, filename) IN
    /\ pathOp' = "DeleteFile"
    /\ IF InvalidPath(filePath)
       THEN /\ pathRet' = [path |-> <<>>, err |-> "invalid file path"]
            /\ UNCHANGED disk
       ELSE /\ pathRet' = [path |-> <<>>, err |-> RemoveError(filePath)]
            /\ disk' = disk \ {filePath}
    /\ UNCHANGED notPathVars

\* Manager.GetFilePath(cameraName, filename).
GetFilePath(cameraName, filename) ==
    LET filePath == FilePath(cameraName, filename) IN
    /\ pathOp' = "GetFilePath"
    /\ pathRet' =
          IF InvalidPath(filePath)
          THEN [path |-> <<>>, err |-> "invalid file path"]
          ELSE IF StatError(filePath) # "nil"
          THEN [path |-> <<>>, err |-> StatError(filePath)]
          ELSE [path |-> filePath, err |-> "nil"]
    /\ UNCHANGED <<disk, notPathVars>>

\* A file is written again: by a recorder under the root, by anything else
\* outside of it.
WriteFile(f) ==
    /\ f \notin disk
    /\ disk' = disk \cup {f}
    /\ UNCHANGED <<pathOp, pathRet, notPathVars>>

PathNext ==
    \/ \E cameraName \in CameraArgs, filename \in FileArgs :
          DeleteFile(cameraName, filename)
    \/ \E cameraName \in CameraArgs, filename \in FileArgs :
          GetFilePath(cameraName, filename)
    \/ \E f \in Files : WriteFile(f)

PathSpec == Init /\ [][PathNext]_vars

\* ------------------------------------------------------------------------
\* The mutexes: RecorderManager.mu, Recorder.mu, MJPEGManager.mu, cond.L
\* ------------------------------------------------------------------------

\* A lock held: k is "rm" (RecorderManager.mu), "rec" (the Recorder.mu of
\* camera c), "m" (MJPEGManager.mu) or "cond" (the L of the cond of camera
\* c); the two manager mutexes belong to no camera.
Lock(k, c, mode) == [k |-> k, c |-> c, mode |-> mode]

\* The positions an operation goes through, from and back to "idle".
\*   StartCamera, StopCamera: rm.mu.Lock, then r.mu.Lock inside rec.Start /
\*     rec.Stop; both released on return.
\*   Status (handleCameraStatus): rm.mu.RLock in GetRecorder, released; then
\*     r.mu.Lock in IsRunning.
\*   Publish (the frame callback): m.mu.RLock for the lookup, released;
\*     cond.L.Lock; m.mu.Lock for the assignment; both released.
\*   ReadFrame (handleLiveStream after Wait): cond.L held, m.mu.RLock in
\*     GetFrame.
\*   MjpegStop: m.mu.Lock for the whole of MJPEGManager.Stop.
Positions(o) ==
    CASE o \in {"StartCamera", "StopCamera"} -> <<"idle", "mgr", "rec">>
      [] o = "Status" -> <<"idle", "mgr", "gap", "rec">>
      [] o = "Publish" -> <<"idle", "look", "gap", "condL", "slot">>
      [] o = "ReadFrame" -> <<"idle", "condL", "slot">>
      [] o = "MjpegStop" -> <<"idle", "slot">>

\* The locks the operation o on camera c holds at position pos.
Held(c, o, pos) ==
    CASE o \in {"StartCamera", "StopCamera"} ->
            IF pos = "mgr" THEN {Lock("rm", "-", "w")}
            ELSE IF pos = "rec" THEN {Lock("rm", "-", "w"), Lock("rec", c, "w")}
            ELSE {}
      [] o = "Status" ->
            IF pos = "mgr" THEN {Lock("rm", "-", "r")}
            ELSE IF pos = "rec" THEN {Lock("rec", c, "w")}
            ELSE {}
      [] o = "Publish" ->
            IF pos = "look" THEN {Lock("m", "-", "r")}
            ELSE IF pos = "condL" THEN {Lock("cond", c, "w")}
            ELSE IF pos = "slot" THEN {Lock("cond", c, "w"), Lock("m", "-", "w")}
            ELSE {}
      [] o = "ReadFrame" ->
            IF pos = "condL" THEN {Lock("cond", c, "w")}
            ELSE IF pos = "slot" THEN {Lock("cond", c, "w"), Lock("m", "-", "r")}
            ELSE {}
      [] o = "MjpegStop" ->
            IF pos = "slot" THEN {Lock("m", "-", "w")} ELSE {}

\* The position after pos.
NextPos(o, pos) ==
    LET ps == Positions(o)
        i == CHOOSE j \in DOMAIN ps : ps[j] = pos
    IN IF i = Len(ps) THEN "idle" ELSE ps[i + 1]

\* Two holds exclude each other: the same mutex, and not both for reading.
Conflict(l, h) == l.k = h.k /\ l.c = h.c /\ (l.mode = "w" \/ h.mode = "w")

\* The locks the next step of operation o on camera c acquires.
Wanted(c, o) ==
    Held(c, o, NextPos(o, opc[c][o])) \ Held(c, o, opc[c][o])

\* The calls in progress that hold a lock the next step of o on c needs.
Blockers(c, o) ==
    {t \in Cams \X Ops :
        /\ t # <<c, o>>
        /\ \E l \in Wanted(c, o), h \in Held(t[1], t[2], opc[t[1]][t[2]]) :
              Conflict(l, h)}

\* The operation o on camera c takes its next step: it is called, acquires
\* its next lock, or releases and returns.
LockStep(c, o) ==
    /\ Blockers(c, o) = {}
    /\ opc' = [opc EXCEPT ![c][o] = NextPos(o, @)]
    /\ UNCHANGED notLockVars

LockNext == \E c \in Cams, o \in Ops : LockStep(c, o)

LockSpec == Init /\ [][LockNext]_vars

\* ------------------------------------------------------------------------
\* storage.Manager.ListFiles, RecorderManager.ListAllSegments and their sorts
\* ------------------------------------------------------------------------

CreatedAfter(a, b) == a.t > b.t

\* `files[i].CreatedAt.Before(files[j].CreatedAt)`
CreatedBefore(a, b) == a.t < b.t

\* `files[i], files[j] = files[j], files[i]`, with TLA+'s indices from 1.
Swap(s, i, j) == [s EXCEPT ![i] = s[j], ![j] = s[i]]

\* `for j := i + 1; j < len(files); j++ { if ... { swap } }`
RECURSIVE InnerLoop(_, _, _)
InnerLoop(s, i, j) ==
    IF j > Len(s) THEN s
    ELSE InnerLoop(IF CreatedBefore(s[i], s[j]) THEN Swap(s, i, j) ELSE s,
                   i, j + 1)

\* `for i := 0; i < len(files)-1; i++ { ... }`
RECURSIVE OuterLoop(_, _)
OuterLoop(s, i) ==
    IF i >= Len(s) THEN s ELSE OuterLoop(InnerLoop(s, i, i + 1), i + 1)

sortFilesByDateDesc(files) == OuterLoop(files, 1)

\* The same two loops, on RecordingSegment.
sortSegmentsByDateDesc(segs) == OuterLoop(segs, 1)

\* `if limit > 0 && len(files) > limit { files = files[:limit] }`
Truncate(files, limit) ==
    IF limit > 0 /\ Len(files) > limit THEN SubSeq(files, 1, limit) ELSE files

\* storage.Manager.ListFiles on the matching files, with its limit.
ListFiles(limit) ==
    /\ listOp = "none"
    /\ listOp' = "ListFiles"
    /\ listLimit' = limit
    /\ listOut' = Truncate(sortFilesByDateDesc(listIn), limit)
    /\ UNCHANGED <<listIn, notListVars>>

\* RecorderManager.ListAllSegments on the segments of all recorders.
ListAllSegments ==
    /\ listOp = "none"
    /\ listOp' = "ListAllSegments"
    /\ listOut' = sortSegmentsByDateDesc(listIn)
    /\ UNCHANGED <<listIn, listLimit, notListVars>>

ListNext ==
    \/ \E limit \in -1..(MaxFiles + 1) : ListFiles(limit)
    \/ ListAllSegments

\* The other components as they start, and any listing.
ListSpecInit ==
    /\ RecInit /\ DemuxInit /\ SlotInit /\ StoreInit /\ NameInit /\ LockInit
    /\ ViewInit /\ StreamInit /\ ListInputs /\ DirInit /\ PathInit

ListSpec == ListSpecInit /\ [][ListNext]_vars

\* ------------------------------------------------------------------------
\* Properties of the Recorder and its registry
\* ------------------------------------------------------------------------

\* C1: a Start on a recorder that is already running returns the
\* already-running error, spawns no further runRecorder goroutine and leaves
\* the running flag, the start time and the last error as they were.
C1_StartWhileRunning ==
    [][\A c \in Cams, k \in {"top", "req"}, mkdirOk \in BOOLEAN :
          (running[c] /\ RecorderStart(c, k, mkdirOk)) =>
              /\ StartError(c, mkdirOk) = "recorder already running"
              /\ nloops'[c] = nloops[c]
              /\ pc'[c] = pc[c]
              /\ running'[c] = running[c]
              /\ startTime'[c] = startTime[c]
              /\ lastError'[c] = lastError[c]]_vars

\* C1 witness: a running recorder with its child in flight, on which the web
\* layer can call Start again.
C1_Witness ==
    \E c \in Cams :
        /\ Serving /\ registered[c] /\ running[c]
        /\ nloops[c] = 1 /\ child[c][1] = "active"
        /\ StartCameraError(c, TRUE) = "recorder already running"

\* C2: at every moment at most one ffmpeg child of a Recorder is alive.
C2_OneChild == \A c \in Cams : Cardinality(ActiveChildren(c)) <= 1

\* C2 witness: Stop, then Start, while the child of the first goroutine is
\* still in flight.
C2_Witness ==
    \E c \in Cams :
        /\ nloops[c] = 2 /\ running[c]
        /\ ChildAlive(c, 1)
        /\ pc[c][2] = "select"

\* C3: while the recorder is started and neither stopped nor cancelled, a
\* failure of the child (the goroutine is in its backoff) is followed by the
\* next call of recordSegment.
C3_FailureIsRetried ==
    \A c \in Cams, l \in Loops :
        (pc[c][l] = "sleep" /\ running[c] /\ ~CtxDone(c, l) /\ Alive)
            ~> (pc[c][l] = "segment" \/ ~running[c] \/ CtxDone(c, l) \/ ~Alive)

\* C4: a successful Start creates a working session.  In its finite form: the
\* goroutine of the latest Start has not returned without ever calling
\* cmd.Run while the recorder is still running and its context still live.
C4_StartCreatesSession ==
    \A c \in Cams :
        (nloops[c] > 0 /\ running[c] /\ ~CtxDone(c, nloops[c]))
            => (pc[c][nloops[c]] # "done" \/ invoked[c][nloops[c]])

\* C5: no sequence of Start, Stop, failures and cancellations ends the
\* hosting process with a panic.
C5_NoPanic == ~crashed

\* C6: Stop on a recorder that is not running returns normally and changes
\* nothing.
C6_StopIdempotent ==
    [][\A c \in Cams :
          (registered[c] /\ ~running[c] /\ StopCamera(c)) =>
              /\ ~StopPanics(c)
              /\ UNCHANGED recorderFields]_vars

\* C6 witness: a recorder that has been stopped once, on which the web layer
\* can call Stop again.
C6_Witness ==
    \E c \in Cams :
        /\ Serving /\ registered[c]
        /\ ~running[c] /\ stopClosed[c]
        /\ ChildAlive(c, 1)

\* C7: when Stop returns, every child of the recorder that is in flight has
\* been asked to terminate (by a signal, or by its cancelled context).
C7_StopInterruptsChild ==
    [][\A c \in Cams :
          (running[c] /\ ~running'[c]) =>
              \A l \in Loops : child'[c][l] = "active" => CtxDone(c, l)]_vars

\* C8: StopAll on a registry whose cameras are all running leaves IsRunning()
\* false for every camera.
C8_StopAllStopsAll ==
    [][(/\ phase = "cancelled" /\ phase' = "stopped"
        /\ \E c \in Cams : registered[c]
        /\ \A c \in Cams : registered[c] => running[c])
          => \A c \in Cams : registered[c] => ~running'[c]]_vars

\* C9: the cancellation of the top-level context reaches every supervision
\* goroutine: each child that is alive when cancel() is called belongs to a
\* context that is done afterwards, so that it is interrupted.
C9_CancelReachesEveryChild ==
    [][(phase = "serving" /\ phase' = "cancelled") =>
          \A c \in Cams, l \in Loops : ChildAlive(c, l) => CtxDone(c, l)']_vars

\* ------------------------------------------------------------------------
\* Properties of readFrames
\* ------------------------------------------------------------------------

\* f runs from a start marker to the next end marker after it.
IsFrame(f) ==
    /\ Len(f) >= 4
    /\ SubSeq(f, 1, 2) = SOI
    /\ SubSeq(f, Len(f) - 1, Len(f)) = EOI
    /\ \A i \in 1..(Len(f) - 2) : SubSeq(f, i, i + 1) # EOI

HasFrame(data) ==
    LET s == bytesIndex(data, SOI) IN
    s # -1 /\ bytesIndex(Slice(data, s, Len(data)), EOI) # -1

\* C11: while the accumulated input holds a start marker with no end marker
\* after it, a pass emits nothing and keeps every byte; when the chunk of a
\* pass supplies the end marker of a pending frame, the first frame emitted is
\* the pending bytes followed by the chunk's bytes up to and including that
\* end marker, and it is the only one unless the rest holds a further frame.
C11_SpanningFrame ==
    rpc = "pass" =>
        LET data == preAcc \o chunk
            s == bytesIndex(data, SOI)
            e == IF s = -1 THEN -1
                 ELSE bytesIndex(Slice(data, s, Len(data)), EOI)
        IN /\ (s # -1 /\ e = -1) =>
                  (emitted = <<>> /\ accumulator = data)
           /\ (bytesIndex(preAcc, SOI) # -1 /\ e # -1) =>
                  /\ Len(emitted) >= 1
                  /\ emitted[1] = Slice(data, s, s + e + 2)
                  /\ IsFrame(emitted[1])
                  /\ (~HasFrame(Slice(data, s + e + 2, Len(data)))
                          => Len(emitted) = 1)

\* C11 witness: the end marker's second byte arrives alone and completes a
\* frame whose other bytes came in earlier chunks.
C11_Witness ==
    /\ rpc = "pass"
    /\ preAcc = <<255, 216, 0, 255>>
    /\ chunk = <<217>>
    /\ emitted = << <<255, 216, 0, 255, 217>> >>
    /\ accumulator = <<>>

\* ------------------------------------------------------------------------
\* Properties of the frame slot
\* ------------------------------------------------------------------------

\* C12: what a request delivers is one complete published frame, never a
\* slice that is still being filled; and no request holds a lock a callback
\* needs while it delivers: a cond's L is held by a request only between the
\* return of Wait and GetFrame.
C12_WholeFramesNoStall ==
    /\ \A v \in Viewers :
          cpc[v] = "deliver" =>
              /\ cframe[v].kind = "frame"
              /\ cframe[v].k \in 1..published
    /\ \A g \in Gens : condL[g] \in Viewers => cpc[condL[g]] = "read"
    /\ muHeld # 0 => ppc[muHeld] = "made"

\* C12 witness: a slow request still delivers the first frame when the
\* second has been published, and a callback is at work again.
C12_Witness ==
    \E v \in Viewers, g \in Gens :
        /\ cpc[v] = "deliver" /\ cframe[v] = Frame(1)
        /\ published = 2 /\ frames = Frame(2)
        /\ ppc[g] = "got"

C14_ClearedAfterStop == ~streaming => frames.kind = "absent"

\* ------------------------------------------------------------------------
\* Properties of the retention sweep
\* ------------------------------------------------------------------------

\* The files the sweep must remove from camera directory d: those directly
\* in it whose modification time lies strictly before the time of the sweep
\* minus the retention horizon, whatever their name.
Due(d) ==
    {p \in Paths : DirOf(p) = d /\ present[p] /\ ~IsDir(p)
                     /\ mtime[p] + RetentionDays < lastCleanup}

\* C15: when no directory read and no removal fails, the sweep of a camera
\* directory removes exactly the files due, leaves every other entry (files
\* at or after the cutoff, sub-directories, files outside camera
\* directories) as it was, and removes nothing from an empty directory.
C15_SweepDeletesExactlyOld ==
    [][\A d \in CameraDirs :
          CleanupDir(d, TRUE, {}) =>
              /\ \A p \in Paths : present'[p] <=> (present[p] /\ p \notin Due(d))
              /\ \A p \in Paths : present'[p] => mtime'[p] = mtime[p]
              /\ deletedCount' = deletedCount + Cardinality(Due(d))
              /\ ({p \in Paths : DirOf(p) = d /\ present[p]} = {}
                    => (present' = present /\ deletedCount' = deletedCount))]_vars

\* C15 witness: a sweep has visited both camera directories and removed the
\* two old files of CamA, one of them not a segment file; the file at the
\* cutoff, the old sub-directory and the old file in the root are still there.
C15_Witness ==
    /\ sweeping /\ todo = {} /\ deletedCount = 2
    /\ ~present["CamA/a.mp4"] /\ ~present["CamA/b.tmp"]
    /\ present["CamB/c.mp4"] /\ mtime["CamB/c.mp4"] = Cutoff(lastCleanup)
    /\ present["CamA/sub"] /\ mtime["CamA/sub"] < Cutoff(lastCleanup)
    /\ present["stray.mp4"] /\ mtime["stray.mp4"] < Cutoff(lastCleanup)

\* C16: a missing output root ends the sweep with nil and no work; an
\* unreadable camera directory is passed over; a removal that fails is
\* skipped and the sweep goes on with the other files and directories; the
\* count and the bytes grow by the files actually removed, and the sweep
\* ends with nil.
C16_SweepSkipsFailures ==
    [][/\ (~rootExists /\ ~sweeping /\ lastCleanup' # lastCleanup) =>
              (cleanupRet' = "nil" /\ ~sweeping' /\ present' = present
                  /\ deletedCount' = 0 /\ deletedSize' = 0)
       /\ \A d \in CameraDirs :
            /\ CleanupDir(d, FALSE, {}) =>
                  (present' = present /\ deletedCount' = deletedCount
                      /\ deletedSize' = deletedSize /\ sweeping'
                      /\ todo' = todo \ {d})
            /\ \A fails \in SUBSET Due(d) :
                  CleanupDir(d, TRUE, fails) =>
                      LET removed == {p \in Paths : present[p] /\ ~present'[p]}
                      IN /\ removed = Due(d) \ fails
                         /\ deletedCount' = deletedCount + Cardinality(removed)
                         /\ deletedSize' = deletedSize + SumSize(removed)
                         /\ sweeping' /\ todo' = todo \ {d}
       /\ (sweeping /\ ~sweeping') => (todo = {} /\ cleanupRet' = "nil")]_vars

\* C16 witness: in one sweep the removal of CamA/a.mp4 has failed, and
\* CamA/b.tmp and CamB/c.mp4 have been removeDone and counted.
C16_Witness ==
    /\ sweeping /\ todo = {}
    /\ present["CamA/a.mp4"] /\ mtime["CamA/a.mp4"] < Cutoff(lastCleanup)
    /\ ~present["CamA/b.tmp"] /\ ~present["CamB/c.mp4"]
    /\ deletedCount = 2 /\ deletedSize = 6

\* C17: a sweep and a statistics query are never in progress together, and a
\* sweep in progress waits for nothing: its next step can be taken, and so
\* can the writing of a segment.
C17_SweepSerializedWithStats ==
    /\ ~(sweeping /\ counting)
    /\ sweeping =>
          /\ ENABLED (\/ \E d \in CameraDirs : CleanupDir(d, TRUE, {})
                      \/ CleanupEnd)
          /\ \A p \in Paths : (~present[p] /\ HasFormat(p)) => ENABLED WriteEntry(p)

\* C17 witness: a statistics query arrives while a sweep has visited one
\* directory and not yet the other.
C17_Witness ==
    /\ sweeping /\ todo = {"CamB"} /\ deletedCount = 1
    /\ ~counting /\ ~ENABLED StatsBegin

\* C18: AddCamera with a name that is already registered returns the
\* already-exists error, whatever its other arguments, and no step it could
\* take changes the registry or a field of the recorder registered under the
\* name.  The registry maps a name to one recorder.
C18_DuplicateNameRejected ==
    \A c \in Cams :
        (phase = "setup" /\ registered[c]) =>
            \A enabled, mkdirOk \in BOOLEAN :
                /\ AddCameraError(c, enabled, mkdirOk) = "already exists"
                /\ ~ENABLED (AddCamera(c, enabled, mkdirOk) /\ vars' # vars)

\* C18 witness: main adds a name a second time while the recorder of the
\* first addition is running with a child.
C18_Witness ==
    \E c \in Cams :
        /\ phase = "setup" /\ registered[c] /\ running[c]
        /\ \E l \in Loops : child[c][l] = "active"
        /\ ENABLED AddCamera(c, TRUE, TRUE)
        /\ AddCameraError(c, TRUE, TRUE) = "already exists"

\* C19: for a name that is not registered, StartCamera, StopCamera and
\* GetRecorder each tell their caller that the camera was not found, the stop
\* request is not answered with success, and none of them changes the state.
C19_UnknownNameNotFound ==
    \A c \in Cams :
        (Serving /\ ~registered[c]) =>
            /\ \A mkdirOk \in BOOLEAN :
                  /\ StartCameraError(c, mkdirOk) = "not found"
                  /\ ~ENABLED (StartCamera(c, mkdirOk) /\ vars' # vars)
            /\ ~GetRecorderOk(c)
            /\ StopCameraResult(c) = "not found"
            /\ handleCameraStopStatus(c) # 200
            /\ ~ENABLED (StopCamera(c) /\ vars' # vars)

\* C20: once RemoveCamera has returned for a name, the name is not in the
\* registry, its recorder is not running, and no goroutine of that recorder
\* starts a child.
C20_RemovedIsStopped ==
    [][\A c \in Cams :
          /\ removeDone'[c] => (~registered'[c] /\ ~running'[c])
          /\ removeDone[c] =>
                \A l \in Loops :
                    child'[c][l] = "active" => child[c][l] = "active"]_vars

\* C21: of two segments of one camera started at different times, the
\* file names differ and are in the lexical order of the start times.
C21_NamesFollowCreation ==
    \A c \in Cams :
        \A i, j \in DOMAIN segments[c] :
            segments[c][i].at < segments[c][j].at =>
                FilenameLess(segments[c][i].filename, segments[c][j].filename)

\* The index, from 0, of the first occurrence of frame f in data at or after
\* index from, or -1.
FindFrom(data, f, from) ==
    IF from > Len(data) THEN -1
    ELSE LET i == bytesIndex(Slice(data, from, Len(data)), f)
         IN IF i = -1 THEN -1 ELSE from + i

\* The index just after the last of the frames fs when they are laid, in
\* order and without overlap, on their earliest occurrences in data at or
\* after index from; -1 when they do not occur so.
RECURSIVE LaidEnd(_, _, _)
LaidEnd(data, fs, from) ==
    IF fs = <<>> THEN from
    ELSE LET i == FindFrom(data, Head(fs), from)
         IN IF i = -1 THEN -1
            ELSE LaidEnd(data, Tail(fs), i + Len(Head(fs)))

\* C26: in every pass, each frame emitted begins with FF D8 and its first
\* FF D9 is its last two bytes; the frames of the pass are byte ranges of the
\* accumulator-so-far followed by the chunk, in order and without overlap;
\* and what the pass leaves in the accumulator is the end of that input,
\* beginning no earlier than the end of the last frame emitted (so that the
\* next pass emits nothing that lies before it).
C26_FramesAreOrderedRanges ==
    rpc = "pass" =>
        LET input == preAcc \o chunk
            end == LaidEnd(input, emitted, 0)
        IN /\ \A i \in DOMAIN emitted :
                /\ Slice(emitted[i], 0, 2) = SOI
                /\ bytesIndex(emitted[i], EOI) = Len(emitted[i]) - 2
           /\ end # -1
           /\ Len(accumulator) <= Len(input) - end
           /\ accumulator = Slice(input, Len(input) - Len(accumulator), Len(input))

\* C26 witness: a pass that found bytes ahead of a start marker in its input
\* and emitted two different frames from it.
C26_Witness ==
    /\ rpc = "pass" /\ preAcc # <<>>
    /\ bytesIndex(preAcc \o chunk, SOI) > 0
    /\ Len(emitted) = 2 /\ emitted[1] # emitted[2]

\* C27: after every pass the accumulator is no longer than the cap plus the
\* longest chunk a Read returns.
C27_AccumulatorBounded ==
    rpc = "pass" => Len(accumulator) <= AccCap + MaxChunkLen

\* C25: lastError changes only in a step in which a goroutine of the
\* recorder, its context not cancelled, comes back from a failed child
\* invocation; and once it holds an error no step makes it empty again.
C25_LastErrorSticks ==
    [][\A c \in Cams :
          /\ lastError[c] # "nil" => lastError'[c] # "nil"
          /\ lastError'[c] # lastError[c] =>
                \E l \in Loops :
                    /\ ~CtxDone(c, l)
                    /\ pc[c][l] \in {"segment", "run"}
                    /\ pc'[c][l] = "sleep"]_vars

\* C25 witness: the recorder holds an error, has been stopped, its first
\* goroutine has ended, and it has been started again.
C25_Witness ==
    \E c \in Cams :
        /\ lastError[c] = "ffmpeg error"
        /\ stopClosed[c] /\ pc[c][1] = "done"
        /\ running[c] /\ nloops[c] = 2

\* C22: a call in progress on one camera is never kept from its next lock
\* by a call on another camera; and of Start, Stop and a status read of one
\* camera at most one is inside the recorder's mutex.
C22_NoCrossCameraWait ==
    /\ \A c \in Cams, o \in Ops : \A t \in Blockers(c, o) : t[1] = c
    /\ \A c \in Cams :
          Cardinality({o \in {"StartCamera", "StopCamera", "Status"} :
                          opc[c][o] = "rec"}) <= 1

\* C24: a live-stream request whose client has disconnected eventually
\* returns.
C24_DisconnectedViewerExits ==
    \A v \in Viewers : clientGone[v] ~> (cpc[v] = "out")

\* C23: a registered streamer whose child failed to launch, or whose frame
\* reader has ended, and whose context is not cancelled, eventually has a
\* child again, unless it is stopped or cancelled first.
C23_StreamerRetries ==
    \A g \in Gens :
        (spc[g] \in {"failed", "ended"} /\ sreg = g /\ ~sctxDone[g])
            ~> (schild[g] = "active" \/ sreg # g \/ sctxDone[g])

\* C29: a streamer that MJPEGManager.Stop has taken out of the map has no
\* child.
C29_NoChildAfterStop ==
    \A g \in Gens : (g <= sgen /\ sreg # g) => schild[g] # "active"

\* C30: a Recorder that reports running has a runRecorder goroutine that
\* has not returned, and a streamer that reports running has a readFrames
\* that has not returned.
C30_RunningMeansAlive ==
    /\ \A c \in Cams :
          (Alive /\ running[c]) =>
              \E l \in Loops : pc[c][l] \notin {"idle", "done"}
    /\ \A g \in Gens : srunning[g] => spc[g] = "reading"

\* C28: what ListFiles and ListAllSegments return holds no file twice and
\* only files of the listing, newest first; ListAllSegments, and ListFiles
\* with a limit of 0 or less, return all n files; ListFiles with a limit
\* above 0 returns min(limit, n) files, none older than a file left out.
C28_ListsNewestFirst ==
    listOp # "none" =>
        LET n == Len(listIn)
            all == {listIn[i] : i \in 1..n}
            out == {listOut[i] : i \in 1..Len(listOut)}
            want == IF listOp = "ListFiles" /\ listLimit > 0 /\ listLimit < n
                    THEN listLimit ELSE n
        IN /\ out \subseteq all
           /\ Cardinality(out) = Len(listOut)
           /\ \A i, j \in 1..Len(listOut) :
                 i < j => listOut[i].t >= listOut[j].t
           /\ Len(listOut) = want
           /\ \A x \in out, y \in all \ out : x.t >= y.t

\* C28 witness: three files met oldest first, listed with a limit of 2: the
\* two newest come back, newest first.
C28_Witness ==
    /\ listOp = "ListFiles" /\ listLimit = 2
    /\ Len(listIn) = 3
    /\ listIn[1].t < listIn[2].t /\ listIn[2].t < listIn[3].t
    /\ listOut = <<listIn[3], listIn[2]>>

\* C31: a call of AddCamera that returns an error leaves the registry as it
\* was: no name is registered by it.
C31_FailedAddLeavesRegistry ==
    [][\A c \in Cams, enabled, mkdirOk \in BOOLEAN :
          (AddCamera(c, enabled, mkdirOk)
              /\ AddCameraError(c, enabled, mkdirOk) # "nil")
          => registered' = registered]_vars

\* C33: no operation on the managers is blocked for ever: a live-stream
\* request parked in the Wait of the cond of a streamer that has been
\* stopped eventually comes out of the Wait.
C33_NoOperationBlocksForever ==
    \A v \in Viewers :
        (cpc[v] = "waiting" /\ ccond[v] \in Gens /\ sstopped[ccond[v]])
            ~> (cpc[v] # "waiting")

\* C32: two distinct names registered in a RecorderManager have distinct
\* output directories, so that no directory is written by two recorders.
C32_DistinctNamesDistinctDirs ==
    \A r1, r2 \in dirRecorders :
        r1.name # r2.name => r1.outputDir # r2.outputDir

\* A path located inside the root directory: the root followed by a
\* separator and more.
InsideRoot(p) ==
    LET root == Clean(OutputDir) IN
    /\ Len(p) > Len(root)
    /\ SubSeq(p, 1, Len(root) + 1) = root \o <<"/">>

\* C34: DeleteFile removes, and GetFilePath returns, only a path inside the
\* output root; a request that resolves outside of it gets an error and
\* removes nothing.
C34_OnlyInsideRoot ==
    [][\A cameraName \in CameraArgs, filename \in FileArgs :
          /\ DeleteFile(cameraName, filename) =>
                /\ \A f \in disk \ disk' : InsideRoot(f)
                /\ ~InsideRoot(FilePath(cameraName, filename)) =>
                      pathRet'.err # "nil" /\ disk' = disk
          /\ GetFilePath(cameraName, filename) =>
                (pathRet'.err = "nil" => InsideRoot(pathRet'.path))]_vars

============================================================================
